---- MODULE Spec2Model ----
(***************************************************************************)
(* Model of tools/joystick: the render worker pool (lib/renderer.py), the  *)
(* per-chunk pipeline and the run loop (replay_render.py), the event       *)
(* compressor (replay_render.py, compress_events), the telemetry index     *)
(* (lib/telemetry.py) and file discovery (lib/discovery.py).               *)
(*                                                                         *)
(* The specifications share the module:                                    *)
(*   SpecPool / FairPool  one BatchRenderer inside render_chunk's `with`   *)
(*   SpecRun              main()'s loop over chunks and the output tree    *)
(*   SpecCompress         compress_events, one loop iteration per step     *)
(*   SpecChunkEvents      render_chunk's frame loop, then compress_events  *)
(*   SpecTelemetry        ChunkTelemetry construction and one lookup       *)
(*   SpecDiscovery        discover_sessions over a directory               *)
(*   SpecSelect           main's --session / --chunk selection             *)
(*   SpecSequence         the pools of successive chunks of one run        *)
(***************************************************************************)
EXTENDS Integers, Sequences, FiniteSets, TLC

\* ---------------------------------------------------------------- bounds
\* a pool run has num_workers + num_frames <= MaxLoad
MaxLoad == 4
\* a run processes at most MaxChunks chunks
MaxChunks == 3
\* compress_events is given at most MaxEvents events
MaxEvents == 7
\* most frames of a road video in the event generation of render_chunk
MaxKeyFrames == 4
\* a telemetry document holds at most MaxSamples samples
MaxSamples == 3
\* raw frame numbers of a telemetry document are at most MaxFrameNumber
MaxFrameNumber == 5
\* the input directory holds at most MaxEntries entries
MaxEntries == 4
\* discovered sessions have the timestamps 0 .. MaxTimestamp
MaxTimestamp == 1
\* and their chunks the indices 0 .. MaxChunkIndex
MaxChunkIndex == 1
\* a run of successive pools has at most MaxSeqChunks chunks, and each pool
\* num_workers + num_frames <= MaxSeqLoad
MaxSeqChunks == 2
MaxSeqLoad == 3

\* ------------------------------------------------------------- variables
VARIABLES
  num_workers,    \* BatchRenderer.num_workers (render_chunk's num_workers argument)
  num_frames,     \* len(road_frames) = len(batch) = len(frames)
  pc,             \* position of the owner (render_chunk / BatchRenderer methods)
  entered,        \* TRUE once __enter__ has run (the with block was entered)
  raised,         \* TRUE when an exception is propagating out of the with block
  workers,        \* len(self.workers): processes started so far
  task_queue,     \* self.task_queue: sequence of tasks, None = poison pill
  result_queue,   \* self.result_queue: sequence of <<frame_index, success>>
  stop_event,     \* self.stop_event
  wpc,            \* position of each worker process
  wtask,          \* the task a worker holds between get() and its result
  serviced,       \* history: frame indices for which each worker put a result
  submitted,      \* tasks put by render_batch so far
  results,        \* render_batch's local list `results`
  pills,          \* poison pills put by cleanup so far
  joined,         \* workers cleanup has joined (and terminated) so far
  \* ---- replay_render.py: main and render_chunk
  num_chunks,     \* chunks selected for the run, processed as chunk 1 .. num_chunks
  rpc,            \* position of main / render_chunk
  cur,            \* the chunk being processed (0 before the first)
  uuids,          \* uuid4 values generated so far (each call yields a fresh one)
  chunk_id,       \* render_chunk's chunk_id, 0 when none
  out_dirs,       \* output root: generated id -> files in that directory
  all_chunk_ids,  \* main's list all_chunk_ids
  index_file,     \* index.txt: whether it exists, and its lines
  attempted,      \* history: chunks on which render_chunk was called, in order
  id_of,          \* history: chunk -> id generated for it (0 when none yet)
  failed,         \* history: chunks whose render_chunk raised
  \* ---- replay_render.py: compress_events
  events,         \* the argument `events`
  i,              \* the scan position `i` (0-based)
  result,         \* the list `result`
  merged,         \* history: <<press position, release position>> of merged pairs
  cpc,            \* "build" in render_chunk's frame loop, "scan" inside the while
                  \* loop of compress_events, "done" after its return
  \* ---- replay_render.py: render_chunk's event generation
  chosen,         \* interpolate_telemetry(telemetry, i) for each frame i: its keys
  frame_i,        \* the loop index `i` of the frame loop
  prev_keys_left, \* render_chunk's prev_keys_left
  prev_keys_right, \* render_chunk's prev_keys_right
  \* ---- lib/telemetry.py
  document,       \* the `frames` argument of ChunkTelemetry (data['frames'])
  frames,         \* ChunkTelemetry.frames
  frame_offset,   \* ChunkTelemetry.frame_offset
  frame_nums,     \* ChunkTelemetry._frame_nums
  query,          \* the frame_index argument of interpolate_telemetry
  returned,       \* what interpolate_telemetry returned, or that it raised
  tpc,            \* "new" before __post_init__, "built" after, "looked" after a lookup
  \* ---- lib/discovery.py
  input_dir,      \* the entries of the directory
  pending,        \* entries iterdir() has not yielded yet
  groups,         \* the dict `groups`, in insertion order
  sessions,       \* the returned list of sessions
  dpc,            \* "list" in the iterdir loop, "build" after it, "done" after return
  \* ---- replay_render.py: main's selection of sessions and chunks
  found,          \* the sessions discover_sessions returned
  arg_session,    \* args.session
  arg_chunk,      \* args.chunk
  kept,           \* `sessions` after the session filter
  session_i,      \* sessions of `kept` the loop has handled
  to_render,      \* the chunks render_chunk was called on, in order
  spc,            \* "args", "loop", "done"
  \* ---- replay_render.py: the pools of successive chunks
  seq_chunks,     \* chunks the run processes
  seq_cur,        \* the chunk being processed (the pool variables are its pool)
  orphans,        \* live worker processes of the pools of earlier chunks
  transcoded      \* chunks for which ffmpeg was invoked

poolVars == <<num_workers, num_frames, pc, entered, raised, workers, task_queue,
              result_queue, stop_event, wpc, wtask, serviced, submitted, results,
              pills, joined>>

runVars == <<num_chunks, rpc, cur, uuids, chunk_id, out_dirs, all_chunk_ids,
             index_file, attempted, id_of, failed>>

compVars == <<events, i, result, merged, cpc>>

evVars == <<chosen, frame_i, prev_keys_left, prev_keys_right>>

telVars == <<document, frames, frame_offset, frame_nums, query, returned, tpc>>

discVars == <<input_dir, pending, groups, sessions, dpc>>

selVars == <<found, arg_session, arg_chunk, kept, session_i, to_render, spc>>

seqVars == <<seq_chunks, seq_cur, orphans, transcoded>>

vars == <<poolVars, runVars, compVars, evVars, telVars, discVars, selVars, seqVars>>

\* index.txt does not exist
NoFile == [exists |-> FALSE, lines |-> << >>]

\* the parts a specification does not exercise stay in these states
IdlePool ==
  /\ num_workers = 0 /\ num_frames = 0 /\ pc = "idle"
  /\ entered = FALSE /\ raised = FALSE /\ workers = 0
  /\ task_queue = << >> /\ result_queue = << >> /\ stop_event = FALSE
  /\ wpc = << >> /\ wtask = << >> /\ serviced = << >>
  /\ submitted = 0 /\ results = << >> /\ pills = 0 /\ joined = 0
IdleRun ==
  /\ num_chunks = 0 /\ rpc = "idle" /\ cur = 0 /\ uuids = 0 /\ chunk_id = 0
  /\ out_dirs = << >> /\ all_chunk_ids = << >> /\ index_file = NoFile
  /\ attempted = << >> /\ id_of = << >> /\ failed = {}
IdleCompress ==
  /\ events = << >> /\ i = 0 /\ result = << >> /\ merged = {} /\ cpc = "idle"
IdleEvents ==
  /\ chosen = << >> /\ frame_i = 0
  /\ prev_keys_left = FALSE /\ prev_keys_right = FALSE
IdleTelemetry ==
  /\ document = << >> /\ frames = << >> /\ frame_offset = 0 /\ frame_nums = << >>
  /\ query = 0 /\ returned = << >> /\ tpc = "idle"
IdleDiscovery ==
  /\ input_dir = {} /\ pending = {} /\ groups = << >> /\ sessions = << >>
  /\ dpc = "idle"
IdleSelect ==
  /\ found = << >> /\ arg_session = << >> /\ arg_chunk = << >> /\ kept = << >>
  /\ session_i = 0 /\ to_render = << >> /\ spc = "idle"
IdleSequence ==
  /\ seq_chunks = 0 /\ seq_cur = 0 /\ orphans = 0 /\ transcoded = {}

\* ------------------------------------------------------------ renderer.py
WorkerIds == 0 .. (MaxLoad - 1)

\* `None` on the task queue (the poison pill); a real task is the 1-tuple of
\* its frame index (the paths and the telemetry JSON are functions of it).
None == << >>
FrameTask(frame_index) == <<frame_index>>

\* (-1, False, "Worker i crashed: ...")
CrashResult == <<-1, FALSE>>

Alive(w) == wpc[w] \in {"setup", "while", "get", "task", "close"}
AliveWorkers == {w \in WorkerIds : Alive(w)}
Crashed == {w \in WorkerIds : wpc[w] = "crashed"}

InitPool ==
  /\ num_workers \in 0 .. MaxLoad
  /\ num_frames \in 0 .. (MaxLoad - num_workers)
  /\ pc = "init"
  /\ entered = FALSE
  /\ raised = FALSE
  /\ workers = 0
  /\ task_queue = << >>
  /\ result_queue = << >>
  /\ stop_event = FALSE
  /\ wpc = [w \in WorkerIds |-> "unborn"]
  /\ wtask = [w \in WorkerIds |-> None]
  /\ serviced = [w \in WorkerIds |-> {}]
  /\ submitted = 0
  /\ results = << >>
  /\ pills = 0
  /\ joined = 0
  /\ IdleRun
  /\ IdleCompress
  /\ IdleEvents
  /\ IdleTelemetry
  /\ IdleDiscovery
  /\ IdleSelect
  /\ IdleSequence

ownerVars == <<num_workers, num_frames, pc, entered, raised, workers, submitted,
               results, pills, joined>>

\* ---- _worker_process ----------------------------------------------------

\* lines 41-48: acquire the browser and load the template
WorkerSetup(w) ==
  /\ wpc[w] = "setup"
  /\ wpc' = [wpc EXCEPT ![w] = "while"]
  /\ UNCHANGED <<task_queue, result_queue, stop_event, wtask, serviced>>
  /\ UNCHANGED <<ownerVars, runVars, compVars, evVars, telVars, discVars, selVars, seqVars>>

\* line 50: while not stop_event.is_set()
WorkerWhile(w) ==
  /\ wpc[w] = "while"
  /\ wpc' = [wpc EXCEPT ![w] = IF stop_event THEN "close" ELSE "get"]
  /\ UNCHANGED <<task_queue, result_queue, stop_event, wtask, serviced>>
  /\ UNCHANGED <<ownerVars, runVars, compVars, evVars, telVars, discVars, selVars, seqVars>>

\* a worker that takes only the tasks of its own share (frame_index mod the
\* pool size), leaving any other task at the head of the queue
WorkerGet_OwnShare(w) ==
  /\ wpc[w] = "get"
  /\ IF \/ task_queue = << >>
        \/ /\ Head(task_queue) # None
           /\ Head(task_queue)[1] % num_workers # w
       THEN /\ wpc' = [wpc EXCEPT ![w] = "while"]
            /\ UNCHANGED <<task_queue, wtask>>
       ELSE /\ task_queue' = Tail(task_queue)
            /\ IF Head(task_queue) = None
                 THEN /\ wpc' = [wpc EXCEPT ![w] = "close"]
                      /\ UNCHANGED wtask
                 ELSE /\ wpc' = [wpc EXCEPT ![w] = "task"]
                      /\ wtask' = [wtask EXCEPT ![w] = Head(task_queue)]
  /\ UNCHANGED <<result_queue, stop_event, serviced>>
  /\ UNCHANGED <<ownerVars, runVars, compVars, evVars, telVars, discVars, selVars, seqVars>>

\* a worker that skips a poison pill and keeps polling
WorkerGet_PillIgnored(w) ==
  /\ wpc[w] = "get"
  /\ IF task_queue = << >>
       THEN /\ wpc' = [wpc EXCEPT ![w] = "while"]
            /\ UNCHANGED <<task_queue, wtask>>
       ELSE /\ task_queue' = Tail(task_queue)
            /\ IF Head(task_queue) = None
                 THEN /\ wpc' = [wpc EXCEPT ![w] = "while"]
                      /\ UNCHANGED wtask
                 ELSE /\ wpc' = [wpc EXCEPT ![w] = "task"]
                      /\ wtask' = [wtask EXCEPT ![w] = Head(task_queue)]
  /\ UNCHANGED <<result_queue, stop_event, serviced>>
  /\ UNCHANGED <<ownerVars, runVars, compVars, evVars, telVars, discVars, selVars, seqVars>>

\* lines 51-60: task_queue.get(timeout=0.1); Empty -> continue; None -> break
WorkerGet(w) ==
  /\ wpc[w] = "get"
  /\ IF task_queue = << >>
       THEN /\ wpc' = [wpc EXCEPT ![w] = "while"]
            /\ UNCHANGED <<task_queue, wtask>>
       ELSE /\ task_queue' = Tail(task_queue)
            /\ IF Head(task_queue) = None
                 THEN /\ wpc' = [wpc EXCEPT ![w] = "close"]
                      /\ UNCHANGED wtask
                 ELSE /\ wpc' = [wpc EXCEPT ![w] = "task"]
                      /\ wtask' = [wtask EXCEPT ![w] = Head(task_queue)]
  /\ UNCHANGED <<result_queue, stop_event, serviced>>
  /\ UNCHANGED <<ownerVars, runVars, compVars, evVars, telVars, discVars, selVars, seqVars>>

\* a worker that reports successes only: a frame failure leaves no result
WorkerTask_SilentFailure(w) ==
  /\ wpc[w] = "task"
  /\ \/ result_queue' = Append(result_queue, <<wtask[w][1], TRUE>>)
     \/ UNCHANGED result_queue
  /\ serviced' = [serviced EXCEPT ![w] = @ \cup {wtask[w][1]}]
  /\ wtask' = [wtask EXCEPT ![w] = None]
  /\ wpc' = [wpc EXCEPT ![w] = "while"]
  /\ UNCHANGED <<task_queue, stop_event>>
  /\ UNCHANGED <<ownerVars, runVars, compVars, evVars, telVars, discVars, selVars, seqVars>>

\* a worker whose loop ends on the first frame failure
WorkerTask_FailureEndsLoop(w) ==
  /\ wpc[w] = "task"
  /\ \E success \in BOOLEAN :
       /\ result_queue' = Append(result_queue, <<wtask[w][1], success>>)
       /\ wpc' = [wpc EXCEPT ![w] = IF success THEN "while" ELSE "close"]
  /\ serviced' = [serviced EXCEPT ![w] = @ \cup {wtask[w][1]}]
  /\ wtask' = [wtask EXCEPT ![w] = None]
  /\ UNCHANGED <<task_queue, stop_event>>
  /\ UNCHANGED <<ownerVars, runVars, compVars, evVars, telVars, discVars, selVars, seqVars>>

\* lines 62-93: render the frame; success or a caught exception, one result
WorkerTask(w) ==
  /\ wpc[w] = "task"
  /\ \E success \in BOOLEAN :
       result_queue' = Append(result_queue, <<wtask[w][1], success>>)
  /\ serviced' = [serviced EXCEPT ![w] = @ \cup {wtask[w][1]}]
  /\ wtask' = [wtask EXCEPT ![w] = None]
  /\ wpc' = [wpc EXCEPT ![w] = "while"]
  /\ UNCHANGED <<task_queue, stop_event>>
  /\ UNCHANGED <<ownerVars, runVars, compVars, evVars, telVars, discVars, selVars, seqVars>>

\* line 95: browser.close(), then the process function returns
WorkerClose(w) ==
  /\ wpc[w] = "close"
  /\ wpc' = [wpc EXCEPT ![w] = "exited"]
  /\ UNCHANGED <<task_queue, result_queue, stop_event, wtask, serviced>>
  /\ UNCHANGED <<ownerVars, runVars, compVars, evVars, telVars, discVars, selVars, seqVars>>

\* a supervisor that restarts the process function after a crash
WorkerCrash_Respawn(w) ==
  /\ wpc[w] \in {"setup", "get", "close"}
  /\ result_queue' = Append(result_queue, CrashResult)
  /\ wpc' = [wpc EXCEPT ![w] = "setup"]
  /\ UNCHANGED <<task_queue, stop_event, wtask, serviced>>
  /\ UNCHANGED <<ownerVars, runVars, compVars, evVars, telVars, discVars, selVars, seqVars>>

\* lines 97-99: an exception escaping the outer try (setup, the queue get,
\* browser.close): one sentinel result, then the process function returns.
\* An exception out of get() may or may not have consumed the head item.
WorkerCrash(w) ==
  /\ wpc[w] \in {"setup", "get", "close"}
  /\ \/ UNCHANGED task_queue
     \/ /\ wpc[w] = "get"
        /\ task_queue # << >>
        /\ task_queue' = Tail(task_queue)
  /\ result_queue' = Append(result_queue, CrashResult)
  /\ wpc' = [wpc EXCEPT ![w] = "crashed"]
  /\ UNCHANGED <<stop_event, wtask, serviced>>
  /\ UNCHANGED <<ownerVars, runVars, compVars, evVars, telVars, discVars, selVars, seqVars>>

\* a step of the process function without an escaping exception
worker_process(w) ==
  \/ WorkerSetup(w)
  \/ WorkerWhile(w)
  \/ WorkerGet(w)
  \/ WorkerTask(w)
  \/ WorkerClose(w)

\* ---- BatchRenderer ------------------------------------------------------

workerVars == <<wtask, serviced>>

\* __init__ lines 123-129: start one process per iteration
Spawn ==
  /\ pc = "init"
  /\ workers < num_workers
  /\ wpc' = [wpc EXCEPT ![workers] = "setup"]
  /\ workers' = workers + 1
  /\ UNCHANGED <<num_workers, num_frames, pc, entered, raised, task_queue,
                 result_queue, stop_event, submitted, results, pills, joined>>
  /\ UNCHANGED <<workerVars, runVars, compVars, evVars, telVars, discVars, selVars, seqVars>>

\* __init__ raises part-way (Process.start() fails): the object is never
\* entered, so __exit__ never runs for it
InitRaise ==
  /\ pc = "init"
  /\ workers < num_workers
  /\ pc' = "left"
  /\ raised' = TRUE
  /\ UNCHANGED <<num_workers, num_frames, entered, workers, task_queue,
                 result_queue, stop_event, wpc, submitted, results, pills, joined>>
  /\ UNCHANGED <<workerVars, runVars, compVars, evVars, telVars, discVars, selVars, seqVars>>

\* __enter__ (lines 198-199), replay_render.py line 146
Enter ==
  /\ pc = "init"
  /\ workers = num_workers
  /\ entered' = TRUE
  /\ pc' = "assemble"
  /\ UNCHANGED <<num_workers, num_frames, raised, workers, task_queue,
                 result_queue, stop_event, wpc, submitted, results, pills, joined>>
  /\ UNCHANGED <<workerVars, runVars, compVars, evVars, telVars, discVars, selVars, seqVars>>

\* replay_render.py lines 148-180: batch assembly; interpolate_telemetry
\* raises on the first frame when the telemetry holds no frames
Assemble ==
  /\ pc = "assemble"
  /\ \/ /\ pc' = "submit"
        /\ UNCHANGED raised
     \/ /\ num_frames > 0
        /\ pc' = "pills"
        /\ raised' = TRUE
  /\ UNCHANGED <<num_workers, num_frames, entered, workers, task_queue,
                 result_queue, stop_event, wpc, submitted, results, pills, joined>>
  /\ UNCHANGED <<workerVars, runVars, compVars, evVars, telVars, discVars, selVars, seqVars>>

\* render_batch lines 140-152: one iteration writes the inputs and puts the task
Submit ==
  /\ pc = "submit"
  /\ submitted < num_frames
  /\ task_queue' = Append(task_queue, FrameTask(submitted))
  /\ submitted' = submitted + 1
  /\ UNCHANGED <<num_workers, num_frames, pc, entered, raised, workers,
                 result_queue, stop_event, wpc, results, pills, joined>>
  /\ UNCHANGED <<workerVars, runVars, compVars, evVars, telVars, discVars, selVars, seqVars>>

\* a render_chunk that does not use the pool as a context manager
SubmitRaise_NoExit ==
  /\ pc = "submit"
  /\ submitted < num_frames
  /\ pc' = "left"
  /\ raised' = TRUE
  /\ UNCHANGED <<num_workers, num_frames, entered, workers, task_queue,
                 result_queue, stop_event, wpc, submitted, results, pills, joined>>
  /\ UNCHANGED <<workerVars, runVars, compVars, evVars, telVars, discVars, selVars, seqVars>>

\* render_batch lines 141-150: cv2.imwrite / json.dumps raises before the put
SubmitRaise ==
  /\ pc = "submit"
  /\ submitted < num_frames
  /\ pc' = "pills"
  /\ raised' = TRUE
  /\ UNCHANGED <<num_workers, num_frames, entered, workers, task_queue,
                 result_queue, stop_event, wpc, submitted, results, pills, joined>>
  /\ UNCHANGED <<workerVars, runVars, compVars, evVars, telVars, discVars, selVars, seqVars>>

\* render_batch line 157: the submission loop is over
SubmitDone ==
  /\ pc = "submit"
  /\ submitted = num_frames
  /\ pc' = "drain"
  /\ UNCHANGED <<num_workers, num_frames, entered, raised, workers, task_queue,
                 result_queue, stop_event, wpc, submitted, results, pills, joined>>
  /\ UNCHANGED <<workerVars, runVars, compVars, evVars, telVars, discVars, selVars, seqVars>>

\* a drain whose get() gives up on an empty queue and raises
Drain_Timeout ==
  /\ pc = "drain"
  /\ Len(results) < num_frames
  /\ IF result_queue # << >>
       THEN /\ results' = Append(results, Head(result_queue))
            /\ result_queue' = Tail(result_queue)
            /\ UNCHANGED <<pc, raised>>
       ELSE /\ pc' = "pills"
            /\ raised' = TRUE
            /\ UNCHANGED <<results, result_queue>>
  /\ UNCHANGED <<num_workers, num_frames, entered, workers,
                 task_queue, stop_event, wpc, submitted, pills, joined>>
  /\ UNCHANGED <<workerVars, runVars, compVars, evVars, telVars, discVars, selVars, seqVars>>

\* render_batch lines 161-163: one blocking result_queue.get() per frame
Drain ==
  /\ pc = "drain"
  /\ Len(results) < num_frames
  /\ result_queue # << >>
  /\ results' = Append(results, Head(result_queue))
  /\ result_queue' = Tail(result_queue)
  /\ UNCHANGED <<num_workers, num_frames, pc, entered, raised, workers,
                 task_queue, stop_event, wpc, submitted, pills, joined>>
  /\ UNCHANGED <<workerVars, runVars, compVars, evVars, telVars, discVars, selVars, seqVars>>

\* render_batch line 178 and replay_render.py line 184: return, leave the with block
DrainDone ==
  /\ pc = "drain"
  /\ Len(results) = num_frames
  /\ pc' = "pills"
  /\ UNCHANGED <<num_workers, num_frames, entered, raised, workers, task_queue,
                 result_queue, stop_event, wpc, submitted, results, pills, joined>>
  /\ UNCHANGED <<workerVars, runVars, compVars, evVars, telVars, discVars, selVars, seqVars>>

render_batch == Submit \/ SubmitRaise \/ SubmitDone \/ Drain \/ DrainDone

\* cleanup lines 183-184: for _ in self.workers: task_queue.put(None)
CleanupPill ==
  /\ pc = "pills"
  /\ pills < workers
  /\ task_queue' = Append(task_queue, None)
  /\ pills' = pills + 1
  /\ UNCHANGED <<num_workers, num_frames, pc, entered, raised, workers,
                 result_queue, stop_event, wpc, submitted, results, joined>>
  /\ UNCHANGED <<workerVars, runVars, compVars, evVars, telVars, discVars, selVars, seqVars>>

\* cleanup line 187: self.stop_event.set()
CleanupStop ==
  /\ pc = "pills"
  /\ pills = workers
  /\ stop_event' = TRUE
  /\ pc' = "join"
  /\ UNCHANGED <<num_workers, num_frames, entered, raised, workers, task_queue,
                 result_queue, wpc, submitted, results, pills, joined>>
  /\ UNCHANGED <<workerVars, runVars, compVars, evVars, telVars, discVars, selVars, seqVars>>

\* a cleanup that joins with the timeout but never terminates
CleanupJoin_NoTerminate ==
  /\ pc = "join"
  /\ joined < workers
  /\ joined' = joined + 1
  /\ UNCHANGED <<num_workers, num_frames, pc, entered, raised, workers, wpc,
                 task_queue, result_queue, stop_event, submitted, results, pills>>
  /\ UNCHANGED <<workerVars, runVars, compVars, evVars, telVars, discVars, selVars, seqVars>>

\* cleanup lines 188-191: w.join(timeout=5); if w.is_alive(): w.terminate()
\* The join returns when the worker has exited or when the timeout expires.
CleanupJoin ==
  /\ pc = "join"
  /\ joined < workers
  /\ wpc' = [wpc EXCEPT ![joined] = IF Alive(joined) THEN "killed" ELSE @]
  /\ joined' = joined + 1
  /\ UNCHANGED <<num_workers, num_frames, pc, entered, raised, workers,
                 task_queue, result_queue, stop_event, submitted, results, pills>>
  /\ UNCHANGED <<workerVars, runVars, compVars, evVars, telVars, discVars, selVars, seqVars>>

\* cleanup lines 193-196 and __exit__ line 202: rmtree, leave the with block
CleanupDone ==
  /\ pc = "join"
  /\ joined = workers
  /\ pc' = "left"
  /\ UNCHANGED <<num_workers, num_frames, entered, raised, workers, task_queue,
                 result_queue, stop_event, wpc, submitted, results, pills, joined>>
  /\ UNCHANGED <<workerVars, runVars, compVars, evVars, telVars, discVars, selVars, seqVars>>

cleanup == CleanupPill \/ CleanupStop \/ CleanupJoin \/ CleanupDone

NextPool ==
  \/ Spawn
  \/ InitRaise
  \/ Enter
  \/ Assemble
  \/ render_batch
  \/ cleanup
  \/ \E w \in WorkerIds : worker_process(w)
  \/ \E w \in WorkerIds : WorkerCrash(w)

SpecPool == InitPool /\ [][NextPool]_vars

\* Fair scheduling: every started worker process keeps running and the owner
\* keeps running; exceptions (crashes, raises) are never forced to happen.
OwnerStep ==
  Spawn \/ Enter \/ Assemble \/ Submit \/ SubmitDone \/ Drain \/ DrainDone \/ cleanup

FairPool ==
  /\ SpecPool
  /\ WF_vars(OwnerStep)
  /\ \A w \in WorkerIds : WF_vars(worker_process(w))

\* ------------------------------------------------------- pool properties
Range(s) == {s[k] : k \in 1 .. Len(s)}
FrameIndices == 0 .. (num_frames - 1)
\* every result ever put and not lost: still queued, or drained
AllResults == result_queue \o results
Count(s, x) == Cardinality({k \in 1 .. Len(s) : s[k] = x})
CountIndex(s, fi) == Cardinality({k \in 1 .. Len(s) : s[k][1] = fi})

\* render_batch has returned normally (and the with block is being left)
Returned == pc \in {"pills", "join", "left"} /\ ~raised

\* C1: absent any worker crash, with at least 2 workers, render_batch eventually
\* returns, having drained exactly num_frames results whose frame indices are in
\* one-to-one correspondence with the submitted frame indices.
C1_OneToOne ==
  (Returned /\ num_workers >= 2 /\ Crashed = {}) =>
     /\ Len(results) = num_frames
     /\ \A fi \in FrameIndices : CountIndex(results, fi) = 1
C1_RenderBatchReturns ==
  /\ []C1_OneToOne
  /\ <>(num_workers < 2 \/ Returned \/ raised \/ Crashed # {})
C1_Witness ==
  /\ Returned /\ num_workers >= 2 /\ Crashed = {}
  /\ num_frames >= 2
  /\ results[1][1] # 0
  /\ \E w \in WorkerIds : serviced[w] # {} /\ serviced[w] # FrameIndices

\* C2: when exactly one of at least 2 workers has crashed during the batch, the
\* results drained by render_batch include the crash sentinel and a result for
\* every task a surviving worker serviced.
C2_CrashKeepsSurvivorResults ==
  (pc = "pills" /\ pills = 0 /\ ~raised /\ num_workers >= 2
     /\ Cardinality(Crashed) = 1) =>
     /\ CrashResult \in Range(results)
     /\ \A w \in WorkerIds \ Crashed :
          \A fi \in serviced[w] : CountIndex(results, fi) = 1

\* C3: a task whose handling raises yields exactly one failure result with the
\* task's frame index; the worker stays alive at the head of its loop, and no
\* other worker and not the owner is stopped by it.
C3_OneResultPerTask ==
  \A fi \in FrameIndices :
     CountIndex(AllResults, fi)
       + Cardinality({w \in WorkerIds : wtask[w] = FrameTask(fi)})
       + Count(task_queue, FrameTask(fi)) <= 1
C3_TaskStep(w) ==
  (wpc[w] = "task" /\ wpc'[w] # "task" /\ wpc'[w] # "killed") =>
     /\ \E success \in BOOLEAN :
          result_queue' = Append(result_queue, <<wtask[w][1], success>>)
     /\ wpc'[w] = "while"
     /\ \A v \in WorkerIds \ {w} : wpc'[v] = wpc[v]
     /\ pc' = pc /\ task_queue' = task_queue /\ stop_event' = stop_event
C3_FrameFailureIsContained ==
  /\ []C3_OneResultPerTask
  /\ [][\A w \in WorkerIds : C3_TaskStep(w)]_vars
C3_Witness ==
  /\ Returned
  /\ \E w \in WorkerIds :
       /\ Cardinality(serviced[w]) >= 2
       /\ \E fi, j \in serviced[w] :
            /\ \E a, b \in 1 .. Len(results) :
                 a < b /\ results[a] = <<fi, FALSE>> /\ results[b] = <<j, TRUE>>

\* C4: a worker whose outer try is left by an exception puts exactly one
\* result with frame index -1 and terminates; no worker is ever started after
\* construction, so the set of live workers only shrinks.
C4_OneSentinelPerCrash == Count(AllResults, CrashResult) = Cardinality(Crashed)
C4_NoRespawn ==
  /\ (pc # "init" => AliveWorkers' \subseteq AliveWorkers)
  /\ \A w \in WorkerIds :
       wpc[w] \in {"exited", "crashed", "killed"} => wpc'[w] = wpc[w]
C4_CrashIsReportedOnce ==
  /\ []C4_OneSentinelPerCrash
  /\ [][C4_NoRespawn]_vars
C4_Witness ==
  /\ pc = "drain"
  /\ Cardinality(Crashed) = 1
  /\ Cardinality(AliveWorkers) = num_workers - 1
  /\ CrashResult \in Range(results)

\* C5: cleanup puts one poison pill per worker, then sets the stop signal, then
\* joins/terminates each worker; when it returns no worker is alive.
C5_CleanupOrder ==
  /\ stop_event => pills = workers
  /\ pills > 0 => pc \in {"pills", "join", "left"}
  /\ joined > 0 => stop_event
  /\ pills <= workers /\ joined <= workers
  /\ (pc = "left" /\ entered) =>
        /\ pills = num_workers /\ stop_event /\ joined = num_workers
        /\ AliveWorkers = {}
C5_Witness ==
  /\ pc = "left" /\ entered
  /\ \E w \in WorkerIds : wpc[w] = "killed" /\ wtask[w] # None
  /\ \E w \in WorkerIds : wpc[w] = "crashed"
  /\ \E w \in WorkerIds : wpc[w] = "exited"

\* C6: once the pool has been entered, the with block is left only through
\* cleanup, on normal return and on an exception alike, and no worker of the
\* pool is alive once it has been left.
C6_LeftOnlyThroughCleanup ==
  (entered /\ pc # "left" /\ pc' = "left") => (pc = "join" /\ joined' = workers)
C6_NoLiveWorkerAfterExit ==
  (entered /\ pc' = "left") => (AliveWorkers' = {} /\ stop_event')
C6_ScopedCleanup ==
  [][C6_LeftOnlyThroughCleanup /\ C6_NoLiveWorkerAfterExit]_vars
C6_Witness ==
  /\ pc = "left" /\ entered /\ raised
  /\ submitted > 0 /\ submitted < num_frames
  /\ \E w \in WorkerIds : wpc[w] = "killed"

\* ------------------------------------------------------- replay_render.py
\* ---- main and render_chunk ----------------------------------------------

\* The chunks main iterates over (all sessions, all selected chunks, in their
\* order) are numbered 1 .. num_chunks.  Generated uuids are numbered in the
\* order of generation; out_dirs[id] is the set of files in {output_dir}/{id}.
InitRun ==
  /\ num_chunks \in 0 .. MaxChunks
  /\ rpc = "main"
  /\ cur = 0
  /\ uuids = 0
  /\ chunk_id = 0
  /\ out_dirs = << >>
  /\ all_chunk_ids = << >>
  /\ index_file = NoFile
  /\ attempted = << >>
  /\ id_of = [c \in 1 .. MaxChunks |-> 0]
  /\ failed = {}
  /\ IdlePool
  /\ IdleCompress
  /\ IdleEvents
  /\ IdleTelemetry
  /\ IdleDiscovery
  /\ IdleSelect
  /\ IdleSequence

\* main lines 304-306: the for loop takes the next chunk and calls render_chunk
NextChunk ==
  /\ rpc = "main"
  /\ cur < num_chunks
  /\ cur' = cur + 1
  /\ attempted' = Append(attempted, cur + 1)
  /\ rpc' = "uuid"
  /\ UNCHANGED <<num_chunks, uuids, chunk_id, out_dirs, all_chunk_ids,
                 index_file, id_of, failed>>
  /\ UNCHANGED <<poolVars, compVars, evVars, telVars, discVars, selVars, seqVars>>

\* a run loop that stops at the first failing chunk (break for continue)
ChunkRaises_Break ==
  /\ failed' = failed \cup {cur}
  /\ cur' = num_chunks
  /\ chunk_id' = 0
  /\ rpc' = "main"

\* main lines 310-312: except Exception: print, continue
ChunkRaises ==
  /\ failed' = failed \cup {cur}
  /\ cur' = cur
  /\ chunk_id' = 0
  /\ rpc' = "main"

\* render_chunk lines 112-120: uuid4, mkdir of the output and the frames directory
MakeDirs ==
  /\ rpc = "uuid"
  /\ uuids' = uuids + 1
  /\ chunk_id' = uuids + 1
  /\ out_dirs' = Append(out_dirs, {})
  /\ id_of' = [id_of EXCEPT ![cur] = uuids + 1]
  /\ rpc' = "telemetry"
  /\ UNCHANGED <<num_chunks, cur, all_chunk_ids, index_file, attempted, failed>>
  /\ UNCHANGED <<poolVars, compVars, evVars, telVars, discVars, selVars, seqVars>>

\* render_chunk lines 122-126: load_telemetry returns or raises
LoadTelemetry ==
  /\ rpc = "telemetry"
  /\ \/ rpc' = "extract" /\ UNCHANGED <<cur, chunk_id, failed>>
     \/ ChunkRaises
  /\ UNCHANGED <<num_chunks, uuids, out_dirs, all_chunk_ids, index_file,
                 attempted, id_of>>
  /\ UNCHANGED <<poolVars, compVars, evVars, telVars, discVars, selVars, seqVars>>

\* render_chunk lines 128-136: extract_frames returns or raises
ExtractFrames ==
  /\ rpc = "extract"
  /\ \/ rpc' = "render" /\ UNCHANGED <<cur, chunk_id, failed>>
     \/ ChunkRaises
  /\ UNCHANGED <<num_chunks, uuids, out_dirs, all_chunk_ids, index_file,
                 attempted, id_of>>
  /\ UNCHANGED <<poolVars, compVars, evVars, telVars, discVars, selVars, seqVars>>

\* render_chunk lines 146-184: the with block (SpecPool) is left by return or
\* by an exception (lookup, submission)
RenderFrames ==
  /\ rpc = "render"
  /\ \/ rpc' = "events" /\ UNCHANGED <<cur, chunk_id, failed>>
     \/ ChunkRaises
  /\ UNCHANGED <<num_chunks, uuids, out_dirs, all_chunk_ids, index_file,
                 attempted, id_of>>
  /\ UNCHANGED <<poolVars, compVars, evVars, telVars, discVars, selVars, seqVars>>

\* render_chunk lines 186-193: compress the events, write events.json
WriteEvents ==
  /\ rpc = "events"
  /\ out_dirs' = [out_dirs EXCEPT ![chunk_id] = @ \cup {"events.json"}]
  /\ rpc' = "ffmpeg"
  /\ UNCHANGED <<num_chunks, cur, uuids, chunk_id, all_chunk_ids, index_file,
                 attempted, id_of, failed>>
  /\ UNCHANGED <<poolVars, compVars, evVars, telVars, discVars, selVars, seqVars>>

\* render_chunk lines 195-215: run ffmpeg; a non-zero exit raises, and the
\* failed encoder may or may not have left a video.mp4 behind
Ffmpeg ==
  /\ rpc = "ffmpeg"
  /\ \/ /\ out_dirs' = [out_dirs EXCEPT ![chunk_id] = @ \cup {"video.mp4"}]
        /\ rpc' = "rmtree"
        /\ UNCHANGED <<cur, chunk_id, failed>>
     \/ /\ \/ out_dirs' = [out_dirs EXCEPT ![chunk_id] = @ \cup {"video.mp4"}]
           \/ UNCHANGED out_dirs
        /\ ChunkRaises
  /\ UNCHANGED <<num_chunks, uuids, all_chunk_ids, index_file, attempted, id_of>>
  /\ UNCHANGED <<poolVars, compVars, evVars, telVars, discVars, selVars, seqVars>>

\* render_chunk lines 217-222 and main line 309: rmtree, return, append the id
ReturnChunk ==
  /\ rpc = "rmtree"
  /\ all_chunk_ids' = Append(all_chunk_ids, chunk_id)
  /\ chunk_id' = 0
  /\ rpc' = "main"
  /\ UNCHANGED <<num_chunks, cur, uuids, out_dirs, index_file, attempted,
                 id_of, failed>>
  /\ UNCHANGED <<poolVars, compVars, evVars, telVars, discVars, selVars, seqVars>>

render_chunk ==
  MakeDirs \/ LoadTelemetry \/ ExtractFrames \/ RenderFrames \/ WriteEvents
  \/ Ffmpeg \/ ReturnChunk

\* random.shuffle: any rearrangement of the list
Shuffles(s) ==
  {[k \in 1 .. Len(s) |-> s[f[k]]] :
     f \in {g \in [1 .. Len(s) -> 1 .. Len(s)] :
              \A a, b \in 1 .. Len(s) : a # b => g[a] # g[b]}}

\* an index built by listing the output root instead of all_chunk_ids
IndexLines_ListDir(ids) == [k \in 1 .. Len(out_dirs) |-> k]

\* main lines 316-320: the lines written to index.txt
IndexLines(ids) == ids

\* main lines 315-323: shuffle and write index.txt when any chunk succeeded
WriteIndex ==
  /\ rpc = "main"
  /\ cur = num_chunks
  /\ IF all_chunk_ids # << >>
       THEN /\ all_chunk_ids' \in Shuffles(all_chunk_ids)
            /\ index_file' = [exists |-> TRUE, lines |-> IndexLines(all_chunk_ids')]
       ELSE UNCHANGED <<all_chunk_ids, index_file>>
  /\ rpc' = "done"
  /\ UNCHANGED <<num_chunks, cur, uuids, chunk_id, out_dirs, attempted, id_of,
                 failed>>
  /\ UNCHANGED <<poolVars, compVars, evVars, telVars, discVars, selVars, seqVars>>

NextRun == NextChunk \/ render_chunk \/ WriteIndex

SpecRun == InitRun /\ [][NextRun]_vars

\* -------------------------------------------------------- run properties
\* C7: a failure while processing a chunk aborts only that chunk; every chunk
\* of the run is attempted, in order, whatever failed before it.
C7_InOrder ==
  /\ Len(attempted) = cur
  /\ \A k \in 1 .. Len(attempted) : attempted[k] = k
  /\ failed \subseteq 1 .. cur
  /\ rpc = "done" => Len(attempted) = num_chunks
C7_FailureStep ==
  failed' # failed =>
     /\ rpc' = "main" /\ cur' = cur /\ num_chunks' = num_chunks
     /\ all_chunk_ids' = all_chunk_ids
C7_FailureAbortsOnlyItsChunk == []C7_InOrder /\ [][C7_FailureStep]_vars
C7_Witness ==
  /\ rpc = "done"
  /\ num_chunks >= 3
  /\ failed = {1, 2}
  /\ Len(all_chunk_ids) = 1

\* C8: at the end of each chunk's processing every generated output directory
\* holds exactly video.mp4 and events.json.
C8_OutputDirsComplete ==
  rpc \in {"main", "done"} =>
     \A id \in 1 .. Len(out_dirs) : out_dirs[id] = {"video.mp4", "events.json"}

\* C9: at the end of the run the index lists exactly the ids of the chunks
\* that were rendered successfully, each once; no id of a failed chunk is in it.
Listed == index_file.lines
Succeeded == {id_of[c] : c \in (1 .. num_chunks) \ failed}
C9_IndexListsSuccesses ==
  rpc = "done" =>
     /\ Len(Listed) = Cardinality(Succeeded)
     /\ Range(Listed) = Succeeded
     /\ \A c \in failed : id_of[c] \notin Range(Listed)
C9_Witness ==
  /\ rpc = "done"
  /\ failed # {}
  /\ Len(Listed) >= 2
  /\ Listed[1] > Listed[2]

\* ---- compress_events -----------------------------------------------------

Keyboard(keycode, is_press) ==
  [type |-> "Keyboard", keycode |-> keycode, is_press |-> is_press]
Frame(frame_counter) == [type |-> "Frame", frame_counter |-> frame_counter]
KeyTyped(keycode) == [type |-> "KeyTyped", keycode |-> keycode]

\* Inputs: every sequence of presses and releases of Left and Right and of
\* Frame markers; the k-th marker carries frame_counter k-1, as render_chunk
\* numbers them.
Kinds == {"PressLeft", "ReleaseLeft", "PressRight", "ReleaseRight", "Frame"}
FramesBefore(ks, n) == Cardinality({m \in 1 .. (n - 1) : ks[m] = "Frame"})
EventOf(ks, n) ==
  CASE ks[n] = "PressLeft" -> Keyboard("Left", TRUE)
    [] ks[n] = "ReleaseLeft" -> Keyboard("Left", FALSE)
    [] ks[n] = "PressRight" -> Keyboard("Right", TRUE)
    [] ks[n] = "ReleaseRight" -> Keyboard("Right", FALSE)
    [] ks[n] = "Frame" -> Frame(FramesBefore(ks, n))
EventList(ks) == [n \in 1 .. Len(ks) |-> EventOf(ks, n)]

InitCompress ==
  /\ \E len \in 0 .. MaxEvents : \E ks \in [1 .. len -> Kinds] : events = EventList(ks)
  /\ i = 0
  /\ result = << >>
  /\ merged = {}
  /\ cpc = "scan"
  /\ IdlePool
  /\ IdleRun
  /\ IdleEvents
  /\ IdleTelemetry
  /\ IdleDiscovery
  /\ IdleSelect
  /\ IdleSequence

\* line 46: a Keyboard event with is_press True
IsPress(event) == event.type = "Keyboard" /\ event.is_press = TRUE

\* lines 53-55: a Keyboard event of the same key with is_press False
IsRelease(candidate, keycode) ==
  /\ candidate.type = "Keyboard"
  /\ candidate.keycode = keycode
  /\ candidate.is_press = FALSE

\* line 51: the 6 of range(i + 1, min(i + 6, len(events)))
LookaheadEnd == 6

Min(a, b) == IF a <= b THEN a ELSE b

\* a look-ahead that stops one event early
Window_TooShort(at) == (at + 1) .. (Min(at + LookaheadEnd - 1, Len(events)) - 1)

\* a look-ahead that reaches one event further
Window_TooWide(at) == (at + 1) .. (Min(at + LookaheadEnd + 1, Len(events)) - 1)

\* line 51: the positions j (0-based) the look-ahead visits from position i
Window(at) == (at + 1) .. (Min(at + LookaheadEnd, Len(events)) - 1)

\* a look-ahead that accepts the release of any key
Releases_AnyKey(at) ==
  {j \in Window(at) : events[j + 1].type = "Keyboard" /\ events[j + 1].is_press = FALSE}

\* lines 51-55, 63: the first position of the window holding a matching release
Releases(at) == {j \in Window(at) : IsRelease(events[j + 1], events[at + 1].keycode)}
FirstRelease(at) == CHOOSE j \in Releases(at) : \A k \in Releases(at) : j <= k

\* a merge that forgets the events between the press and the release
Between_Dropped(at, j) == << >>

\* lines 59-60: events[k] for k in range(i + 1, j)
Between(at, j) == SubSeq(events, at + 2, j)

\* lines 42-70: one iteration of the while loop
CompressStep ==
  /\ cpc = "scan"
  /\ i < Len(events)
  /\ LET event == events[i + 1] IN
       IF IsPress(event) /\ Releases(i) # {}
         THEN LET j == FirstRelease(i) IN
                /\ result' = (result \o <<KeyTyped(event.keycode)>>) \o Between(i, j)
                /\ i' = j + 1
                /\ merged' = merged \cup {<<i, j>>}
         ELSE /\ result' = Append(result, event)
              /\ i' = i + 1
              /\ UNCHANGED merged
  /\ UNCHANGED <<events, cpc>>
  /\ UNCHANGED <<poolVars, runVars, evVars, telVars, discVars, selVars, seqVars>>

\* lines 42, 72: the loop ends, return result
CompressReturn ==
  /\ cpc = "scan"
  /\ i >= Len(events)
  /\ cpc' = "done"
  /\ UNCHANGED <<events, i, result, merged>>
  /\ UNCHANGED <<poolVars, runVars, evVars, telVars, discVars, selVars, seqVars>>

compress_events == CompressStep \/ CompressReturn

SpecCompress == InitCompress /\ [][compress_events]_vars

\* --------------------------------------------------- compress properties
MergedPresses == {pr[1] : pr \in merged}
MergedReleases == {pr[2] : pr \in merged}

\* the input with every merged press replaced by KeyTyped and every merged
\* release removed, all other events kept in place
RECURSIVE Rewritten(_)
Rewritten(p) ==
  IF p >= Len(events) THEN << >>
  ELSE (IF p \in MergedPresses THEN <<KeyTyped(events[p + 1].keycode)>>
        ELSE IF p \in MergedReleases THEN << >>
        ELSE <<events[p + 1]>>) \o Rewritten(p + 1)

\* C10: the output of compress_events is the input with each press at which the
\* scan found a same-key release replaced in place by KeyTyped and that release
\* removed; every other event is kept once, unmodified, in order, so the output
\* length is the input length minus the number of merged pairs.
C10_OutputIsRewrittenInput ==
  cpc = "done" =>
     /\ result = Rewritten(0)
     /\ Len(result) = Len(events) - Cardinality(merged)
     /\ \A pr \in merged :
          /\ pr[1] < pr[2]
          /\ IsPress(events[pr[1] + 1])
          /\ IsRelease(events[pr[2] + 1], events[pr[1] + 1].keycode)
     /\ \A pr, qr \in merged : pr # qr => {pr[1], pr[2]} \cap {qr[1], qr[2]} = {}
C10_Witness ==
  /\ cpc = "done"
  /\ events = <<Keyboard("Left", TRUE), Frame(0), Keyboard("Left", FALSE), Frame(1),
                Keyboard("Right", FALSE)>>
  /\ result = <<KeyTyped("Left"), Frame(0), Frame(1), Keyboard("Right", FALSE)>>

\* offsets d in 1..5 at which a release of the key pressed at position p lies
ReleaseOffsets(p) ==
  {d \in 1 .. 5 : p + d < Len(events)
                  /\ IsRelease(events[p + d + 1], events[p + 1].keycode)}
NearestOffset(p) == CHOOSE d \in ReleaseOffsets(p) : \A e \in ReleaseOffsets(p) : d <= e

\* C11: with the scan at a press of key K, the press is merged if and only if a
\* release of K lies at one of the offsets 1..5 after it; the nearest such
\* release is the one consumed and the scan resumes right after it.
C11_ScanAtPress ==
  (cpc = "scan" /\ i < Len(events) /\ IsPress(events[i + 1])) =>
     /\ (merged' # merged) = (ReleaseOffsets(i) # {})
     /\ ReleaseOffsets(i) # {} =>
          /\ merged' = merged \cup {<<i, i + NearestOffset(i)>>}
          /\ i' = i + NearestOffset(i) + 1
          /\ result'[Len(result) + 1] = KeyTyped(events[i + 1].keycode)
C11_WindowOfFive == [][C11_ScanAtPress]_vars
C11_Witness ==
  /\ cpc = "done"
  /\ events = <<Keyboard("Left", TRUE), Keyboard("Left", TRUE), Frame(0), Frame(1),
                Frame(2), Frame(3), Keyboard("Left", FALSE)>>
  /\ merged = {<<1, 6>>}
  /\ result = <<Keyboard("Left", TRUE), KeyTyped("Left"), Frame(0), Frame(1),
                Frame(2), Frame(3)>>

\* position in the output of the input event at position p (p not a merged release)
OutPos(p) == p - Cardinality({r \in MergedReleases : r < p}) + 1

\* C12: a press with no release of its key among the 5 events after it is in
\* the output as the same press event, and a scan positioned at it advances by
\* exactly one event.
C12_UnmatchedStays ==
  cpc = "done" =>
     \A p \in 0 .. (Len(events) - 1) :
        (IsPress(events[p + 1]) /\ ReleaseOffsets(p) = {}) =>
           /\ p \notin MergedPresses
           /\ OutPos(p) \in 1 .. Len(result)
           /\ result[OutPos(p)] = events[p + 1]
C12_ScanStep ==
  (cpc = "scan" /\ i < Len(events) /\ IsPress(events[i + 1])
     /\ ReleaseOffsets(i) = {}) =>
     /\ i' = i + 1
     /\ result' = Append(result, events[i + 1])
     /\ merged' = merged
C12_UnmatchedPressKept == []C12_UnmatchedStays /\ [][C12_ScanStep]_vars
C12_Witness ==
  /\ cpc = "done"
  /\ events = <<Keyboard("Right", TRUE), Frame(0), Frame(1), Frame(2), Frame(3),
                Frame(4), Keyboard("Right", FALSE)>>
  /\ result = events
  /\ merged = {}

\* inputs in which each of the two keys is pressed once and released once, later
PressesOf(keycode) ==
  {p \in 0 .. (Len(events) - 1) : events[p + 1] = Keyboard(keycode, TRUE)}
ReleasesOf(keycode) ==
  {r \in 0 .. (Len(events) - 1) : events[r + 1] = Keyboard(keycode, FALSE)}
PressAt(keycode) == CHOOSE p \in PressesOf(keycode) : TRUE
ReleaseAt(keycode) == CHOOSE r \in ReleasesOf(keycode) : TRUE
OnePairPerKey ==
  \A keycode \in {"Left", "Right"} :
     /\ Cardinality(PressesOf(keycode)) = 1
     /\ Cardinality(ReleasesOf(keycode)) = 1
     /\ PressAt(keycode) < ReleaseAt(keycode)
Other(keycode) == IF keycode = "Left" THEN "Right" ELSE "Left"
Within5(keycode) == ReleaseAt(keycode) - PressAt(keycode) <= 5
StaysUnmodified(keycode) ==
  /\ <<PressAt(keycode), ReleaseAt(keycode)>> \notin merged
  /\ result[OutPos(PressAt(keycode))] = Keyboard(keycode, TRUE)
  /\ result[OutPos(ReleaseAt(keycode))] = Keyboard(keycode, FALSE)
BecomesKeyTyped(keycode) ==
  /\ <<PressAt(keycode), ReleaseAt(keycode)>> \in merged
  /\ result[OutPos(PressAt(keycode))] = KeyTyped(keycode)
\* the press of the key lies inside a pair of the other key that is itself merged
Enclosed(keycode) ==
  /\ PressAt(Other(keycode)) < PressAt(keycode)
  /\ PressAt(keycode) < ReleaseAt(Other(keycode))
  /\ Within5(Other(keycode))
OrderKept ==
  /\ Len(result) = Len(events) - Cardinality(merged)
  /\ \A p \in 0 .. (Len(events) - 1) :
        p \notin (MergedPresses \cup MergedReleases) => result[OutPos(p)] = events[p + 1]

RECURSIVE ScanFrom(_, _)
ScanFrom(list, at) ==
  IF at >= Len(list) THEN << >>
  ELSE LET event == list[at + 1]
           window == (at + 1) .. (Min(at + LookaheadEnd, Len(list)) - 1)
           releases == {j \in window : IsRelease(list[j + 1], event.keycode)}
       IN IF IsPress(event) /\ releases # {}
            THEN LET j == CHOOSE r \in releases : \A k \in releases : r <= k
                 IN (<<KeyTyped(event.keycode)>> \o SubSeq(list, at + 2, j))
                      \o ScanFrom(list, j + 1)
            ELSE <<event>> \o ScanFrom(list, at + 1)
Compressed(list) == ScanFrom(list, 0)

\* the function computes what the loop has computed
Compressed_IsResult == cpc = "done" => result = Compressed(events)

\* C32: compress_events is idempotent: compressing the result of a pass again
\* gives the same list, i.e. a pass leaves no press that a second pass would
\* still merge with a release.
C32_Idempotent == cpc = "done" => Compressed(result) = result

\* ------------------------------ replay_render.py: render_chunk's events
\* the key fields of a telemetry sample
KeyStates == [keys_left : BOOLEAN, keys_right : BOOLEAN]

\* lines 130, 141-143, 157: a road video of n frames; the samples that
\* interpolate_telemetry picks for the frames 0 .. n-1 carry any key states
InitChunkEvents ==
  /\ \E n \in 0 .. MaxKeyFrames : chosen \in [1 .. n -> KeyStates]
  /\ frame_i = 0
  /\ prev_keys_left = FALSE
  /\ prev_keys_right = FALSE
  /\ events = << >>
  /\ i = 0
  /\ result = << >>
  /\ merged = {}
  /\ cpc = "build"
  /\ IdlePool
  /\ IdleRun
  /\ IdleTelemetry
  /\ IdleDiscovery
  /\ IdleSelect
  /\ IdleSequence

\* a key event is appended whether or not the key changed
KeyChange_Always(keycode, now, prev) == <<Keyboard(keycode, now)>>

\* lines 160-161 and 163-164: the event appended for one key
KeyChange(keycode, now, prev) ==
  IF now # prev THEN <<Keyboard(keycode, now)>> ELSE << >>

\* lines 150-168: one iteration of the frame loop
FrameLoop ==
  /\ cpc = "build"
  /\ frame_i < Len(chosen)
  /\ LET telem == chosen[frame_i + 1]
     IN /\ events' = events
                       \o KeyChange("Left", telem.keys_left, prev_keys_left)
                       \o KeyChange("Right", telem.keys_right, prev_keys_right)
                       \o <<Frame(frame_i)>>
        /\ prev_keys_left' =
             IF telem.keys_left # prev_keys_left THEN telem.keys_left ELSE prev_keys_left
        /\ prev_keys_right' =
             IF telem.keys_right # prev_keys_right THEN telem.keys_right
                                                     ELSE prev_keys_right
  /\ frame_i' = frame_i + 1
  /\ UNCHANGED <<chosen, i, result, merged, cpc>>
  /\ UNCHANGED <<poolVars, runVars, telVars, discVars, selVars, seqVars>>

\* line 187: the loop is over, compress_events(events) is called
CallCompress ==
  /\ cpc = "build"
  /\ frame_i = Len(chosen)
  /\ cpc' = "scan"
  /\ UNCHANGED <<events, i, result, merged>>
  /\ UNCHANGED <<poolVars, runVars, evVars, telVars, discVars, selVars, seqVars>>

NextChunkEvents == FrameLoop \/ CallCompress \/ CompressStep \/ CompressReturn

SpecChunkEvents == InitChunkEvents /\ [][NextChunkEvents]_vars

\* the Frame markers of an event list, in order
FrameMarkers(list) == SelectSeq(list, LAMBDA e : e.type = "Frame")
\* the key state of frame n (1-based in `chosen`), not pressed before frame 0
StateAt(n) == IF n = 0 THEN [keys_left |-> FALSE, keys_right |-> FALSE] ELSE chosen[n]
Changed(keycode, now, before) ==
  IF now = before THEN << >> ELSE <<[type |-> "Keyboard", keycode |-> keycode,
                                     is_press |-> now]>>
RECURSIVE ExpectedEvents(_)
ExpectedEvents(n) ==
  IF n = 0 THEN << >>
  ELSE ExpectedEvents(n - 1)
         \o Changed("Left", StateAt(n).keys_left, StateAt(n - 1).keys_left)
         \o Changed("Right", StateAt(n).keys_right, StateAt(n - 1).keys_right)
         \o <<[type |-> "Frame", frame_counter |-> n - 1]>>

\* C14: for a road video of n frames the event list holds exactly one Frame
\* marker per frame index 0..n-1 in ascending order, before and after
\* compression; a key event for Left or Right is emitted at frame i exactly
\* when the key's state in the sample chosen for i differs from its state at
\* frame i-1 (not pressed before frame 0), and it precedes frame i's marker.
C14_EventsPerFrame ==
  /\ events = ExpectedEvents(frame_i)
  /\ cpc \in {"scan", "done"} =>
        FrameMarkers(events) = [k \in 1 .. Len(chosen) |-> Frame(k - 1)]
  /\ cpc = "done" =>
        FrameMarkers(result) = [k \in 1 .. Len(chosen) |-> Frame(k - 1)]
C14_Witness ==
  /\ cpc = "done"
  /\ Len(chosen) = 3
  /\ events = <<Keyboard("Left", TRUE), Frame(0), Keyboard("Left", FALSE),
                Keyboard("Right", TRUE), Frame(1), Frame(2)>>
  /\ result = <<KeyTyped("Left"), Frame(0), Keyboard("Right", TRUE), Frame(1), Frame(2)>>

\* ------------------------------------------------------- lib/telemetry.py
\* raw frame numbers of a document: corrupted ones (<= 0) and recorded ones
FrameNumbers == (0 - 1) .. MaxFrameNumber
\* frame indices looked up: below, inside and beyond every normalized range
Queries == (0 - 2) .. (MaxFrameNumber + 1)

\* lines 50-63: the TelemetryFrame list of a document with the given raw frame
\* numbers; video_time stands for the payload of the sample (distinct per sample)
TelemetryFrames(ns) ==
  [k \in 1 .. Len(ns) |-> [frame_number |-> ns[k], video_time |-> k]]

\* lines 46-69: any document, in any order, is loaded as it is
InitTelemetry ==
  /\ \E len \in 0 .. MaxSamples :
        \E ns \in [1 .. len -> FrameNumbers] : document = TelemetryFrames(ns)
  /\ frames = document
  /\ frame_offset = 0
  /\ frame_nums = << >>
  /\ query = 0
  /\ returned = << >>
  /\ tpc = "new"
  /\ IdlePool
  /\ IdleRun
  /\ IdleCompress
  /\ IdleEvents
  /\ IdleDiscovery
  /\ IdleSelect
  /\ IdleSequence

\* line 38
Valid(fs) == SelectSeq(fs, LAMBDA f : f.frame_number > 0)

\* lines 35-43: ChunkTelemetry.__post_init__
PostInit ==
  /\ tpc = "new"
  /\ IF frames # << >> /\ Valid(frames) # << >>
       THEN /\ frames' = Valid(frames)
            /\ frame_offset' = Valid(frames)[1].frame_number
            /\ frame_nums' = [k \in 1 .. Len(Valid(frames)) |->
                                Valid(frames)[k].frame_number
                                  - Valid(frames)[1].frame_number]
       ELSE UNCHANGED <<frames, frame_offset, frame_nums>>
  /\ tpc' = "built"
  /\ UNCHANGED <<document, query, returned>>
  /\ UNCHANGED <<poolVars, runVars, compVars, evVars, discVars, selVars, seqVars>>

\* bisect.bisect_left(a, x): the binary search of the standard library, with
\* 0-based lo and hi over the 1-based sequence a
RECURSIVE BisectLeft(_, _, _, _)
BisectLeft(a, x, lo, hi) ==
  IF lo < hi
    THEN LET mid == (lo + hi) \div 2
         IN IF a[mid + 1] < x THEN BisectLeft(a, x, mid + 1, hi)
                              ELSE BisectLeft(a, x, lo, mid)
    ELSE lo
bisect_left(a, x) == BisectLeft(a, x, 0, Len(a))

Abs(x) == IF x < 0 THEN 0 - x ELSE x

NoFrame == [frame_number |-> 0, video_time |-> 0]
Raise == [raised |-> TRUE, frame |-> NoFrame]
Return(f) == [raised |-> FALSE, frame |-> f]

\* the sample at the insertion point, whatever its distance
interpolate_telemetry_InsertionPoint(frame_index) ==
  IF frames = << >> THEN Raise
  ELSE LET idx == bisect_left(frame_nums, frame_index)
       IN IF idx >= Len(frames) THEN Return(frames[Len(frames)])
          ELSE Return(frames[idx + 1])

\* lines 72-95
interpolate_telemetry(frame_index) ==
  IF frames = << >> THEN Raise
  ELSE LET idx == bisect_left(frame_nums, frame_index)
       IN IF idx = 0 THEN Return(frames[1])
          ELSE IF idx >= Len(frames) THEN Return(frames[Len(frames)])
          ELSE IF Abs(frame_nums[idx + 1] - frame_index)
                    < Abs(frame_nums[idx] - frame_index)
                 THEN Return(frames[idx + 1])
                 ELSE Return(frames[idx])

\* a call interpolate_telemetry(telemetry, q)
Lookup ==
  /\ tpc = "built"
  /\ \E q \in Queries :
        /\ query' = q
        /\ returned' = interpolate_telemetry(q)
  /\ tpc' = "looked"
  /\ UNCHANGED <<document, frames, frame_offset, frame_nums>>
  /\ UNCHANGED <<poolVars, runVars, compVars, evVars, discVars, selVars, seqVars>>

NextTelemetry == PostInit \/ Lookup

SpecTelemetry == InitTelemetry /\ [][NextTelemetry]_vars

Ascending(a) == \A k \in 1 .. (Len(a) - 1) : a[k] <= a[k + 1]

\* C15: for a non-empty index with ascending normalized frame numbers and any
\* query q, the lookup returns one of the recorded samples of the index, and
\* no sample of the index is nearer to q than the returned one.
C15_NearestSample ==
  (tpc = "looked" /\ frame_nums # << >> /\ Ascending(frame_nums)) =>
     /\ ~returned.raised
     /\ \E k \in 1 .. Len(frames) :
           /\ returned.frame = frames[k]
           /\ returned.frame \in {document[d] : d \in 1 .. Len(document)}
           /\ \A j \in 1 .. Len(frame_nums) :
                 Abs(frame_nums[k] - query) <= Abs(frame_nums[j] - query)
C15_Witness ==
  /\ tpc = "looked"
  /\ frame_nums = <<0, 2, 4>>
  /\ query = 3
  /\ returned = Return(frames[2])
  /\ Len(document) = 3

\* the insertion point of the query (0-based, as bisect_left returns it)
InsertionPoint == bisect_left(frame_nums, query)

\* C16: when the query is equidistant from the sample at the insertion point
\* and from its predecessor, the lookup returns the later one, the sample at
\* the insertion point.
C16_TieReturnsLater ==
  (/\ tpc = "looked" /\ frame_nums # << >> /\ Ascending(frame_nums)
   /\ InsertionPoint > 0 /\ InsertionPoint < Len(frames)
   /\ Abs(frame_nums[InsertionPoint + 1] - query)
        = Abs(frame_nums[InsertionPoint] - query)) =>
     returned = Return(frames[InsertionPoint + 1])

\* C17: for a non-empty index no lookup raises, every query at or below the
\* first normalized frame number returns the first sample and every query
\* above the last normalized frame number returns the last sample.
C17_Clamps ==
  (tpc = "looked" /\ frame_nums # << >>) =>
     /\ ~returned.raised
     /\ query <= frame_nums[1] => returned = Return(frames[1])
     /\ query > frame_nums[Len(frame_nums)] => returned = Return(frames[Len(frames)])

AllCorrupted == \A d \in 1 .. Len(document) : document[d].frame_number <= 0

\* C18: a ChunkTelemetry built from input whose raw frame numbers are all <= 0
\* (or from no frames) holds no frames, and every lookup against it raises
\* instead of returning a sample.
C18_EmptyState ==
  (AllCorrupted /\ tpc \in {"built", "looked"}) =>
     /\ frames = << >>
     /\ tpc = "looked" => returned.raised

\* ------------------------------------------------------- lib/discovery.py
\* a directory entry: whether it is a regular file, and its name
\* <file_type>_<timestamp_str>_chunk<chunk_str>.<ext>
Entry(is_file, file_type, timestamp_str, chunk_str, ext) ==
  [is_file |-> is_file, file_type |-> file_type, timestamp_str |-> timestamp_str,
   chunk_str |-> chunk_str, ext |-> ext]

\* the chunks the recorder wrote: two of session 1 and one of session 2
Recorded == {<<"1", "0">>, <<"1", "1">>, <<"2", "0">>}

\* the names a directory is drawn from: the road video and the telemetry of
\* every recorded chunk, a wide video, the other extension for one chunk, a
\* zero-padded chunk number, a name the pattern rejects and a subdirectory
Entries ==
  {Entry(TRUE, "road", r[1], r[2], "webm") : r \in Recorded}
    \cup {Entry(TRUE, "telemetry", r[1], r[2], "json") : r \in Recorded}
    \cup {Entry(TRUE, "wide", "1", "1", "webm")}
    \cup {Entry(TRUE, "road", "1", "0", "json"), Entry(TRUE, "telemetry", "1", "0", "webm"),
          Entry(TRUE, "road", "1", "00", "webm"), Entry(TRUE, "road", "1", "0", "mp4"),
          Entry(FALSE, "telemetry", "1", "1", "webm")}

\* line 27: FILE_PATTERN.match(f.name)
Match(f) ==
  /\ f.file_type \in {"road", "wide", "telemetry"}
  /\ f.ext \in {"webm", "json"}

\* lines 47-48: int() of a digit string
int(str) == CASE str = "0" -> 0 [] str = "00" -> 0 [] str = "1" -> 1 [] str = "2" -> 2

\* all files of a session fall into one group
KeyOf_TimestampOnly(f) == <<int(f.timestamp_str), 0>>

\* lines 46-49: key = (timestamp, chunk_index)
KeyOf(f) == <<int(f.timestamp_str), int(f.chunk_str)>>

InitDiscovery ==
  /\ input_dir \in {d \in SUBSET Entries : Cardinality(d) <= MaxEntries}
  /\ pending = input_dir
  /\ groups = << >>
  /\ sessions = << >>
  /\ dpc = "list"
  /\ IdlePool
  /\ IdleRun
  /\ IdleCompress
  /\ IdleEvents
  /\ IdleTelemetry
  /\ IdleSelect
  /\ IdleSequence

\* position of the key in `groups`, 0 when absent
GroupAt(key) ==
  IF \E g \in 1 .. Len(groups) : groups[g].key = key
    THEN CHOOSE g \in 1 .. Len(groups) : groups[g].key = key
    ELSE 0

\* lines 51-54: groups[key][file_type] = f
Put(f) ==
  LET key == KeyOf(f)
      g == GroupAt(key)
  IN IF g = 0
       THEN Append(groups, [key |-> key, files |-> (f.file_type :> f)])
       ELSE [groups EXCEPT ![g].files = (f.file_type :> f) @@ groups[g].files]

\* lines 40-54: one iteration of the loop over input_dir.iterdir(), which
\* yields the entries in an arbitrary order
ListEntry ==
  /\ dpc = "list"
  /\ \E f \in pending :
        /\ pending' = pending \ {f}
        /\ groups' = IF f.is_file /\ Match(f) THEN Put(f) ELSE groups
  /\ UNCHANGED <<input_dir, sessions, dpc>>
  /\ UNCHANGED <<poolVars, runVars, compVars, evVars, telVars, selVars, seqVars>>

\* files.get('wide') of a group without a wide entry
NoPath == Entry(FALSE, "None", "", "", "")

\* lines 60-61
Complete(files) == "road" \in DOMAIN files /\ "telemetry" \in DOMAIN files

\* lines 63-69
ChunkOf(group) ==
  [timestamp |-> group.key[1], chunk_index |-> group.key[2],
   road_video |-> group.files["road"],
   wide_video |-> IF "wide" \in DOMAIN group.files THEN group.files["wide"] ELSE NoPath,
   telemetry |-> group.files["telemetry"]]

\* lines 59-73: the chunks of the complete groups, in the order of `groups`
CompleteGroups == SelectSeq(groups, LAMBDA group : Complete(group.files))
Chunks == [k \in 1 .. Len(CompleteGroups) |-> ChunkOf(CompleteGroups[k])]

\* a key is listed every time it is seen
FirstSeen_Repeats(s) == s

\* the keys of a dict filled in this order: each value once, in first-seen order
RECURSIVE FirstSeen(_)
FirstSeen(s) ==
  IF s = << >> THEN << >>
  ELSE LET before == FirstSeen(SubSeq(s, 1, Len(s) - 1))
       IN IF s[Len(s)] \in Range(before) THEN before ELSE Append(before, s[Len(s)])

\* the list is left in the order it had
StableSort_Unsorted(list, keys, reverse) == list

\* list.sort(key=..., reverse=...): a stable sort; keys[k] is the key of list[k]
StableSort(list, keys, reverse) ==
  LET Before(j, k) ==
        \/ IF reverse THEN keys[j] > keys[k] ELSE keys[j] < keys[k]
        \/ keys[j] = keys[k] /\ j < k
      Rank(k) == Cardinality({j \in 1 .. Len(list) : Before(j, k)}) + 1
  IN [p \in 1 .. Len(list) |-> list[CHOOSE k \in 1 .. Len(list) : Rank(k) = p]]

\* lines 71-79: chunks_by_session and the sessions built from it
SessionOf(timestamp) ==
  LET chunks == SelectSeq(Chunks, LAMBDA c : c.timestamp = timestamp)
  IN [timestamp |-> timestamp,
      chunks |-> StableSort(chunks, [k \in 1 .. Len(chunks) |-> chunks[k].chunk_index],
                            FALSE)]
BuiltSessions ==
  LET order == FirstSeen([k \in 1 .. Len(Chunks) |-> Chunks[k].timestamp])
  IN [k \in 1 .. Len(order) |-> SessionOf(order[k])]

\* lines 56-84: the rest of discover_sessions, after the loop over the entries
BuildSessions ==
  /\ dpc = "list"
  /\ pending = {}
  /\ sessions' = StableSort(BuiltSessions,
                            [k \in 1 .. Len(BuiltSessions) |-> BuiltSessions[k].timestamp],
                            TRUE)
  /\ dpc' = "done"
  /\ UNCHANGED <<input_dir, pending, groups>>
  /\ UNCHANGED <<poolVars, runVars, compVars, evVars, telVars, selVars, seqVars>>

discover_sessions == ListEntry \/ BuildSessions

SpecDiscovery == InitDiscovery /\ [][discover_sessions]_vars

\* the chunks of the returned sessions
ReturnedChunks ==
  UNION {Range(sessions[k].chunks) : k \in 1 .. Len(sessions)}
\* the regular files of the directory named <kind>_<t>_chunk<n>.webm or .json
\* with the numbers t and n
FilesOf(kind, timestamp, chunk_index) ==
  {f \in input_dir : /\ f.is_file
                     /\ f.file_type = kind
                     /\ f.ext \in {"webm", "json"}
                     /\ int(f.timestamp_str) = timestamp
                     /\ int(f.chunk_str) = chunk_index}

\* C19: every returned Chunk has a road path and a telemetry path taken from
\* the entries of its own (timestamp, chunk_index); a group without a road
\* entry or without a telemetry entry gives no Chunk (a wide entry alone never
\* does), names the pattern rejects contribute nothing, and discovery returns.
C19_ChunksAreComplete ==
  /\ dpc = "done" =>
        /\ \A c \in ReturnedChunks :
              /\ c.road_video \in FilesOf("road", c.timestamp, c.chunk_index)
              /\ c.telemetry \in FilesOf("telemetry", c.timestamp, c.chunk_index)
              /\ c.wide_video \in FilesOf("wide", c.timestamp, c.chunk_index) \cup {NoPath}
        /\ \A timestamp \in {1, 2}, chunk_index \in {0, 1} :
              (\/ FilesOf("road", timestamp, chunk_index) = {}
               \/ FilesOf("telemetry", timestamp, chunk_index) = {}) =>
                 ~\E c \in ReturnedChunks :
                     c.timestamp = timestamp /\ c.chunk_index = chunk_index
  /\ (dpc = "list" /\ pending = {}) => ENABLED BuildSessions
C19_Witness ==
  /\ dpc = "done"
  /\ input_dir = {Entry(TRUE, "road", "1", "0", "webm"),
                  Entry(TRUE, "telemetry", "1", "0", "json"),
                  Entry(TRUE, "wide", "1", "1", "webm"),
                  Entry(TRUE, "road", "1", "0", "mp4")}
  /\ sessions = <<[timestamp |-> 1,
                   chunks |-> <<[timestamp |-> 1, chunk_index |-> 0,
                                 road_video |-> Entry(TRUE, "road", "1", "0", "webm"),
                                 wide_video |-> NoPath,
                                 telemetry |-> Entry(TRUE, "telemetry", "1", "0", "json")]>>]>>

\* C20: the returned sessions are in strictly descending order of timestamp and
\* the chunks of every session in strictly ascending order of chunk_index,
\* whatever the entries and the order in which they were enumerated.
C20_Sorted ==
  dpc = "done" =>
     /\ \A k \in 1 .. (Len(sessions) - 1) :
           sessions[k].timestamp > sessions[k + 1].timestamp
     /\ \A k \in 1 .. Len(sessions) :
           \A c \in 1 .. (Len(sessions[k].chunks) - 1) :
              sessions[k].chunks[c].chunk_index < sessions[k].chunks[c + 1].chunk_index
\* the older session was enumerated first and is returned last
C20_Witness ==
  /\ dpc = "done"
  /\ Len(sessions) = 2
  /\ groups[1].key = <<1, 0>>
  /\ sessions[1].timestamp = 2
  /\ sessions[2].timestamp = 1

\* the timestamps with a valid chunk: some chunk number has both a road entry
\* and a telemetry entry in the directory
ValidTimestamps ==
  {timestamp \in {1, 2} :
     \E chunk_index \in {0, 1} :
        /\ FilesOf("road", timestamp, chunk_index) # {}
        /\ FilesOf("telemetry", timestamp, chunk_index) # {}}
\* the places <<session, chunk>> of the returned chunks
ChunkPlaces ==
  {pl \in (1 .. Len(sessions)) \X (1 .. MaxEntries) : pl[2] <= Len(sessions[pl[1]].chunks)}
ChunkIn(pl) == sessions[pl[1]].chunks[pl[2]]

\* C21: the result holds exactly one Session per timestamp that has a valid
\* chunk, no Session is empty, every chunk carries its Session's timestamp, and
\* no two chunks of the result share a (timestamp, chunk_index).
C21_OneSessionPerTimestamp ==
  dpc = "done" =>
     /\ {sessions[k].timestamp : k \in 1 .. Len(sessions)} = ValidTimestamps
     /\ \A j, k \in 1 .. Len(sessions) :
           sessions[j].timestamp = sessions[k].timestamp => j = k
     /\ \A k \in 1 .. Len(sessions) : sessions[k].chunks # << >>
     /\ \A pl \in ChunkPlaces : ChunkIn(pl).timestamp = sessions[pl[1]].timestamp
     /\ \A pl, pm \in ChunkPlaces :
           (/\ ChunkIn(pl).timestamp = ChunkIn(pm).timestamp
            /\ ChunkIn(pl).chunk_index = ChunkIn(pm).chunk_index) => pl = pm
\* three groups of which one is complete, its road name zero-padded
C21_Witness ==
  /\ dpc = "done"
  /\ Len(groups) = 3
  /\ groups[1].key = <<1, 1>> /\ groups[2].key = <<2, 0>> /\ groups[3].key = <<1, 0>>
  /\ Entry(TRUE, "road", "1", "00", "webm") \in input_dir
  /\ Len(sessions) = 1
  /\ Len(sessions[1].chunks) = 1
  /\ sessions[1].chunks[1].chunk_index = 0

\* C22: a road or wide entry is accepted as a video only with the extension
\* webm and a telemetry entry only with the extension json.
C22_ExtensionByKind ==
  dpc = "done" =>
     \A c \in ReturnedChunks :
        /\ c.road_video.ext = "webm"
        /\ c.wide_video # NoPath => c.wide_video.ext = "webm"
        /\ c.telemetry.ext = "json"

\* ----------------------------------------------- pool properties, continued
\* the drain waits for more results than the pool will ever deliver: no worker
\* process is running and fewer results than frames were put
Starved ==
  /\ pc = "drain"
  /\ ~raised
  /\ AliveWorkers = {}
  /\ Len(results) + Len(result_queue) < num_frames
  /\ pills = 0 /\ ~stop_event /\ joined = 0

\* C23: when the pool can no longer deliver as many results as tasks were
\* submitted, render_batch stays in its drain for ever: it does not return,
\* does not raise, and cleanup is not reached.
C23_DrainBlocksForever == [][Starved => Starved']_vars
\* every worker crashed in setup, more frames than workers, sentinels drained
C23_Witness ==
  /\ Starved
  /\ num_workers > 0
  /\ num_frames > num_workers
  /\ \A w \in 0 .. (num_workers - 1) : wpc[w] = "crashed" /\ serviced[w] = {}
  /\ Len(task_queue) = num_frames
  /\ Len(results) = num_workers
  /\ result_queue = << >>

\* C24: once the stop signal is set no worker begins handling a new real task.
C24_NoNewTaskStep ==
  \A w \in WorkerIds : (stop_event /\ wpc[w] # "task") => wpc'[w] # "task"
C24_NoNewTaskAfterStop == [][C24_NoNewTaskStep]_vars

\* worker w receives a poison pill from task_queue.get() in this step
TakesPill(w) ==
  /\ wpc[w] = "get"
  /\ task_queue # << >>
  /\ Head(task_queue) = None
  /\ task_queue' = Tail(task_queue)
  /\ wpc'[w] \notin {"get", "crashed", "killed"}
\* the worker has left its loop
LoopLeft(w) == wpc[w] \in {"close", "exited", "crashed", "killed"}

\* C25: a worker that dequeues a poison pill leaves its loop for the release
\* of its rendering context and puts no result for the pill; having left the
\* loop it never dequeues again, so it consumes at most one pill; pills lie
\* behind every real task in the queue, so no real task enqueued before a
\* consumed pill is still in the queue.
C25_PillStep ==
  \A w \in WorkerIds :
     /\ TakesPill(w) => (wpc'[w] = "close" /\ result_queue' = result_queue
                         /\ wtask'[w] = None)
     /\ LoopLeft(w) => LoopLeft(w)'
C25_PillsBehindTasks ==
  \A a, b \in 1 .. Len(task_queue) :
     (a < b /\ task_queue[a] = None) => task_queue[b] = None
C25_PillEndsWorker == []C25_PillsBehindTasks /\ [][C25_PillStep]_vars
\* the only worker took the pill and exited; the frame's result was drained
C25_Witness ==
  /\ num_workers = 1
  /\ num_frames = 1
  /\ pills = 1
  /\ task_queue = << >>
  /\ wpc[0] = "exited"
  /\ Len(results) = 1
  /\ result_queue = << >>

\* frame_<fi>.png exists: a worker took the screenshot and reported success
Rendered(fi) == \E k \in 1 .. Len(AllResults) : AllResults[k] = <<fi, TRUE>>

\* C26: when the with block is left normally (the transcoder is invoked next)
\* a rendered file exists for every frame index 0..n-1.
C26_FramesContiguous ==
  (pc = "left" /\ entered /\ ~raised) => \A fi \in FrameIndices : Rendered(fi)

\* C31: as long as at least one worker of the pool completes setup and never
\* crashes, render_batch eventually returns for every batch size (under fair
\* scheduling), even when other workers of the same pool crash: the tasks sit
\* on one shared queue, so a crash strands none of them.
\* A crash is final, so "some worker never crashes" is "the pool is never
\* all crashed"; a fairly scheduled worker that never crashes completes setup.
Pool == 0 .. (num_workers - 1)
AllCrashed == workers = num_workers /\ Pool \subseteq Crashed
C31_ReturnsDespiteCrashes == <>(Returned \/ raised \/ AllCrashed)
C31_Witness ==
  /\ Returned
  /\ num_frames >= 2
  /\ Crashed # {}
  /\ \E w \in Pool \ Crashed : serviced[w] = FrameIndices

\* -------------------------------------------- telemetry properties, continued
SurvivingNumbers ==
  {document[d].frame_number : d \in {e \in 1 .. Len(document) : document[e].frame_number > 0}}

\* C28: for input with at least one raw frame number > 0, in any order,
\* frame_offset is the smallest surviving raw frame number, exactly the
\* samples with raw frame number > 0 are kept, the index array is parallel to
\* the frame list and every normalized frame number is >= 0.
C28_OffsetIsSmallest ==
  (tpc \in {"built", "looked"} /\ SurvivingNumbers # {}) =>
     /\ \A n \in SurvivingNumbers : frame_offset <= n
     /\ frame_offset \in SurvivingNumbers
     /\ frames = SelectSeq(document, LAMBDA f : f.frame_number > 0)
     /\ Len(frame_nums) = Len(frames)
     /\ \A k \in 1 .. Len(frames) :
           /\ frame_nums[k] = frames[k].frame_number - frame_offset
           /\ frame_nums[k] >= 0

\* C29: every constructed ChunkTelemetry has its frames and its index array in
\* ascending order of normalized frame number, whatever the document's order.
C29_IndexIsSorted ==
  tpc \in {"built", "looked"} =>
     /\ Ascending(frame_nums)
     /\ \A k \in 1 .. (Len(frames) - 1) :
           frames[k].frame_number <= frames[k + 1].frame_number

\* ------------------------------------- replay_render.py: main's selection
\* an optional integer argument: absent (None) or given with a value
NoArg == [given |-> FALSE, value |-> 0]
Arg(v) == [given |-> TRUE, value |-> v]

\* `if args.session:` / `if args.chunk:` -- None and 0 are falsy
Truthy(arg) == arg.given /\ arg.value # 0

\* the elements of a set of integers as a list in descending / ascending order
DescendingList(S) ==
  CHOOSE q \in [1 .. Cardinality(S) -> S] :
     \A j, k \in 1 .. Cardinality(S) : j < k => q[j] > q[k]
AscendingList(S) ==
  CHOOSE q \in [1 .. Cardinality(S) -> S] :
     \A j, k \in 1 .. Cardinality(S) : j < k => q[j] < q[k]

\* line 278: what discover_sessions returns for the chunk identities `ids`:
\* sessions by descending timestamp, chunks by ascending index
Discovered(ids) ==
  LET stamps == DescendingList({id[1] : id \in ids})
      ChunksOf(timestamp) ==
        LET indices == AscendingList({id[2] : id \in {x \in ids : x[1] = timestamp}})
        IN [k \in 1 .. Len(indices) |->
              [timestamp |-> timestamp, chunk_index |-> indices[k]]]
  IN [k \in 1 .. Len(stamps) |-> [timestamp |-> stamps[k], chunks |-> ChunksOf(stamps[k])]]

InitSelect ==
  /\ \E ids \in SUBSET ((0 .. MaxTimestamp) \X (0 .. MaxChunkIndex)) :
        found = Discovered(ids)
  /\ arg_session \in {NoArg} \cup {Arg(v) : v \in 0 .. (MaxTimestamp + 1)}
  /\ arg_chunk \in {NoArg} \cup {Arg(v) : v \in 0 .. (MaxChunkIndex + 1)}
  /\ kept = << >>
  /\ session_i = 0
  /\ to_render = << >>
  /\ spc = "args"
  /\ IdlePool
  /\ IdleRun
  /\ IdleCompress
  /\ IdleEvents
  /\ IdleTelemetry
  /\ IdleDiscovery
  /\ IdleSequence

\* lines 280-288: return when nothing was found; the session filter
FilterSessions ==
  /\ spc = "args"
  /\ LET filtered ==
           IF Truthy(arg_session)
             THEN SelectSeq(found, LAMBDA session : session.timestamp = arg_session.value)
             ELSE found
     IN /\ kept' = IF found = << >> THEN kept ELSE filtered
        /\ spc' = IF found = << >> \/ filtered = << >> THEN "done" ELSE "loop"
  /\ UNCHANGED <<found, arg_session, arg_chunk, session_i, to_render>>
  /\ UNCHANGED <<poolVars, runVars, compVars, evVars, telVars, discVars, seqVars>>

\* lines 294-312: one session of the loop; render_chunk is called on every
\* chunk the chunk filter leaves, whether or not the call raises
SessionLoop ==
  /\ spc = "loop"
  /\ session_i < Len(kept)
  /\ LET session == kept[session_i + 1]
         chunks == IF Truthy(arg_chunk)
                     THEN SelectSeq(session.chunks,
                                    LAMBDA c : c.chunk_index = arg_chunk.value)
                     ELSE session.chunks
     IN to_render' = to_render \o chunks
  /\ session_i' = session_i + 1
  /\ UNCHANGED <<found, arg_session, arg_chunk, kept, spc>>
  /\ UNCHANGED <<poolVars, runVars, compVars, evVars, telVars, discVars, seqVars>>

\* line 314: the loop over the sessions is over
LoopDone ==
  /\ spc = "loop"
  /\ session_i = Len(kept)
  /\ spc' = "done"
  /\ UNCHANGED <<found, arg_session, arg_chunk, kept, session_i, to_render>>
  /\ UNCHANGED <<poolVars, runVars, compVars, evVars, telVars, discVars, seqVars>>

NextSelect == FilterSessions \/ SessionLoop \/ LoopDone

SpecSelect == InitSelect /\ [][NextSelect]_vars

\* the discovered chunks
FoundChunks == UNION {Range(found[k].chunks) : k \in 1 .. Len(found)}

\* C30: with a session timestamp or a chunk index selected, exactly the
\* discovered chunks of that session and of that index are rendered, for every
\* value including 0; with nothing selected every discovered chunk is rendered.
C30_SelectionIsExact ==
  spc = "done" =>
     /\ Range(to_render) =
          {c \in FoundChunks :
             /\ arg_session.given => c.timestamp = arg_session.value
             /\ arg_chunk.given => c.chunk_index = arg_chunk.value}
     /\ Len(to_render) = Cardinality(Range(to_render))

\* --------------------- replay_render.py: the pools of successive chunks
\* main calls render_chunk for one chunk after another (lines 304-312); each
\* call builds its own BatchRenderer (line 146), modelled by the pool actions

InitSequence ==
  /\ seq_chunks \in 1 .. MaxSeqChunks
  /\ seq_cur = 1
  /\ orphans = 0
  /\ transcoded = {}
  /\ num_workers \in 0 .. MaxSeqLoad
  /\ num_frames \in 0 .. (MaxSeqLoad - num_workers)
  /\ pc = "init"
  /\ entered = FALSE
  /\ raised = FALSE
  /\ workers = 0
  /\ task_queue = << >>
  /\ result_queue = << >>
  /\ stop_event = FALSE
  /\ wpc = [w \in WorkerIds |-> "unborn"]
  /\ wtask = [w \in WorkerIds |-> None]
  /\ serviced = [w \in WorkerIds |-> {}]
  /\ submitted = 0
  /\ results = << >>
  /\ pills = 0
  /\ joined = 0
  /\ IdleRun
  /\ IdleCompress
  /\ IdleEvents
  /\ IdleTelemetry
  /\ IdleDiscovery
  /\ IdleSelect

\* render_chunk lines 186-213: the with block was left normally; the events
\* are written and ffmpeg is invoked
Transcode ==
  /\ pc = "left"
  /\ entered
  /\ ~raised
  /\ seq_cur \notin transcoded
  /\ transcoded' = transcoded \cup {seq_cur}
  /\ UNCHANGED <<seq_chunks, seq_cur, orphans>>
  /\ UNCHANGED <<poolVars, runVars, compVars, evVars, telVars, discVars, selVars>>

\* main lines 304-312 and render_chunk lines 100-146: the chunk is over (it
\* returned, or it raised and main continues); the next render_chunk builds a
\* new BatchRenderer. Processes of the old pool that nobody joined or
\* terminated keep running.
NextRender ==
  /\ pc = "left"
  /\ raised \/ seq_cur \in transcoded
  /\ seq_cur < seq_chunks
  /\ seq_cur' = seq_cur + 1
  /\ orphans' = orphans + Cardinality(AliveWorkers)
  /\ num_frames' \in 0 .. (MaxSeqLoad - num_workers)
  /\ pc' = "init"
  /\ entered' = FALSE
  /\ raised' = FALSE
  /\ workers' = 0
  /\ task_queue' = << >>
  /\ result_queue' = << >>
  /\ stop_event' = FALSE
  /\ wpc' = [w \in WorkerIds |-> "unborn"]
  /\ wtask' = [w \in WorkerIds |-> None]
  /\ serviced' = [w \in WorkerIds |-> {}]
  /\ submitted' = 0
  /\ results' = << >>
  /\ pills' = 0
  /\ joined' = 0
  /\ UNCHANGED <<num_workers, seq_chunks, transcoded>>
  /\ UNCHANGED <<runVars, compVars, evVars, telVars, discVars, selVars>>

\* renderer.py lines 97-99 in a process of an earlier pool: it crashes and ends
OrphanCrash ==
  /\ orphans > 0
  /\ orphans' = orphans - 1
  /\ UNCHANGED <<seq_chunks, seq_cur, transcoded>>
  /\ UNCHANGED <<poolVars, runVars, compVars, evVars, telVars, discVars, selVars>>

NextSequence == NextPool \/ Transcode \/ NextRender \/ OrphanCrash

SpecSequence == InitSequence /\ [][NextSequence]_vars

\* C27: at most one pool instance has live workers: no worker of a chunk's
\* pool is spawned while a worker of an earlier chunk's pool is alive, and the
\* transcoder of a chunk is invoked only after the chunk's pool was cleaned up.
C27_OnePoolAtATime ==
  /\ workers > 0 => orphans = 0
  /\ seq_cur \in transcoded => (pc = "left" /\ AliveWorkers = {})

====
